---- MODULE Spec2Model ----
(***************************************************************************)
(* Security-guard dashboard (vishal0589/security-dashboard).               *)
(*                                                                         *)
(* Two dashboard variants are modelled:                                    *)
(*   "compliance" : src/unnamed/part_001 (App with the Compliance tab)     *)
(*   "basic"      : src/src/App.js                                         *)
(*                                                                         *)
(* CSV cell values are modelled as sequences of one-character strings, so  *)
(* that String.prototype.includes, parseInt, parseFloat and the Date       *)
(* parser are computed on the text and not assumed.  The empty sequence    *)
(* stands for a cell that is missing or empty (both are falsy in JS).      *)
(*                                                                         *)
(* Numbers are integers.  Quotients are kept as numerator/denominator      *)
(* pairs and rounded with Math.round's round-half-up rule; within the      *)
(* bounds used here every quotient that lands on a half is a dyadic        *)
(* fraction, so the IEEE-754 result agrees with the exact one.             *)
(* Duty hours are held in tenths of an hour.                               *)
(***************************************************************************)
EXTENDS Integers, Sequences, FiniteSets, TLC

(***************************************************************************)
(* Bounds of the model.                                                    *)
(***************************************************************************)
\* the most rows the two decoded files have together (aggregation)
MaxRows == 4
\* the most loadData invocations of a run (load cycle)
MaxCycles == 3
\* the most location entries and the most guard entries of an accumulator
MaxProfiles == 2

(***************************************************************************)
(* JavaScript values.                                                      *)
(***************************************************************************)
\* The IEEE not-a-number value: the result of 0/0, of getHours() on an
\* Invalid Date, of parseInt/parseFloat on text without a leading number.
NaN == 0 - 1000

\* A missing or empty cell.
Absent == << >>

\* JS truthiness of a string-or-undefined cell.
Truthy(s) == s # Absent

\* a === b on numbers: NaN is not equal to anything, itself included.
StrictEq(a, b) == a # NaN /\ b # NaN /\ a = b

\* Ge as it would be with > written for >=.
Ge_Strict(a, b) == a # NaN /\ b # NaN /\ a > b

\* a >= b on numbers: any comparison with NaN is false.
Ge(a, b) == a # NaN /\ b # NaN /\ a >= b

\* a <= b on numbers: any comparison with NaN is false.
Le(a, b) == a # NaN /\ b # NaN /\ a <= b

\* Math.round(num / den) for num >= 0: 0/0 is NaN, otherwise round half up.
MathRound(num, den) ==
    IF den = 0 THEN NaN ELSE (2 * num + den) \div (2 * den)

Min(a, b) == IF a <= b THEN a ELSE b

Digits == {"0", "1", "2", "3", "4", "5", "6", "7", "8", "9"}

DigitVal(c) ==
    CASE c = "0" -> 0 [] c = "1" -> 1 [] c = "2" -> 2 [] c = "3" -> 3
      [] c = "4" -> 4 [] c = "5" -> 5 [] c = "6" -> 6 [] c = "7" -> 7
      [] c = "8" -> 8 [] c = "9" -> 9

\* Length of the longest prefix of s made of decimal digits.
RECURSIVE DigitPrefixLen(_)
DigitPrefixLen(s) ==
    IF s = << >> \/ Head(s) \notin Digits THEN 0
    ELSE 1 + DigitPrefixLen(Tail(s))

\* Value of a sequence of decimal digits.
RECURSIVE DigitsValue(_)
DigitsValue(s) ==
    IF s = << >> THEN 0
    ELSE 10 * DigitsValue(SubSeq(s, 1, Len(s) - 1)) + DigitVal(s[Len(s)])

\* parseInt(s): the leading decimal digits, NaN when there are none.
ParseInt(s) ==
    LET n == DigitPrefixLen(s)
    IN  IF n = 0 THEN NaN ELSE DigitsValue(SubSeq(s, 1, n))

\* parseFloat(s) in tenths: leading digits, then optionally "." and one
\* digit; NaN when s does not start with a digit.
ParseFloat(s) ==
    LET n == DigitPrefixLen(s)
    IN  IF n = 0 THEN NaN
        ELSE IF Len(s) >= n + 2 /\ s[n + 1] = "." /\ s[n + 2] \in Digits
             THEN 10 * DigitsValue(SubSeq(s, 1, n)) + DigitVal(s[n + 2])
             ELSE 10 * DigitsValue(SubSeq(s, 1, n))

\* s.includes(t): t occurs in s as a contiguous substring.
Includes(s, t) ==
    \E i \in 1..(Len(s) + 1) :
        /\ i + Len(t) - 1 <= Len(s)
        /\ SubSeq(s, i, i + Len(t) - 1) = t

\* s?.includes(t): undefined (falsy) when the cell is missing.
OptIncludes(s, t) == Truthy(s) /\ Includes(s, t)

\* new Date(s).getHours() for the export format "YYYY-MM-DD HH:MM"; any
\* text that is not a valid timestamp of that format is an Invalid Date,
\* whose getHours() is NaN.
GetHours(s) ==
    LET num(i, j) == DigitsValue(SubSeq(s, i, j))
        dig(i, j) == \A k \in i..j : s[k] \in Digits
    IN  IF /\ Len(s) = 16
           /\ dig(1, 4) /\ s[5] = "-" /\ dig(6, 7) /\ s[8] = "-" /\ dig(9, 10)
           /\ s[11] = " " /\ dig(12, 13) /\ s[14] = ":" /\ dig(15, 16)
           /\ num(6, 7) \in 1..12 /\ num(9, 10) \in 1..31
           /\ num(12, 13) <= 23 /\ num(15, 16) <= 59
        THEN num(12, 13)
        ELSE NaN


\* The value undefined, read from a property an object does not have.
Undefined == 0 - 2000

\* ToNumber for the relational operators: undefined converts to NaN.
ToNumber(v) == IF v = Undefined THEN NaN ELSE v

Range(f) == {f[i] : i \in DOMAIN f}

\* Position of the first element of seq whose key (keys[i]) is k, 0 if none.
IndexOf(keys, k) ==
    IF \E i \in 1..Len(keys) : keys[i] = k
    THEN CHOOSE i \in 1..Len(keys) :
             keys[i] = k /\ \A j \in 1..(i - 1) : keys[j] # k
    ELSE 0

\* Array.prototype.sort with a consistent comparator that orders by an
\* integer key, ascending; the sort is stable (ECMAScript 2019).
StableSort(items, keys) ==
    LET n == Len(items)
        Rank(i) == 1 + Cardinality({j \in 1..n :
                          keys[j] < keys[i] \/ (keys[j] = keys[i] /\ j < i)})
    IN  [p \in 1..n |-> items[CHOOSE i \in 1..n : Rank(i) = p]]

\* All orders of a sequence: what Array.prototype.sort may produce when the
\* comparator is not consistent (the order is implementation-defined).
AllOrders(items) ==
    LET n == Len(items)
    IN  {[p \in 1..n |-> items[f[p]]] :
            f \in {g \in [1..n -> 1..n] : \A a, b \in 1..n : a # b => g[a] # g[b]}}

\* A property key is an array index when it is a canonical decimal numeral
\* below 2^32 - 1.  Numerals of up to 9 digits are all below that limit;
\* longer numerals do not occur in the inputs of this model.
IsArrayIndex(k) ==
    /\ Len(k) > 0
    /\ Len(k) <= 9
    /\ \A i \in 1..Len(k) : k[i] \in Digits
    /\ (Len(k) = 1 \/ k[1] # "0")

\* Object.values(obj) for an object whose own properties were created in
\* the order of `entries` under the keys `keys`: array-index keys first, in
\* ascending numeric order, then the other keys in creation order.
ObjectValues(entries, keys) ==
    StableSort(entries,
               [i \in 1..Len(keys) |->
                   IF IsArrayIndex(keys[i]) THEN DigitsValue(keys[i])
                   ELSE 1000000000])

\* Set.add as it would be if a missing value were not added as a member.
SetAdd_SkippingMissing(set, v) ==
    IF ~Truthy(v) \/ v \in Range(set) THEN set ELSE Append(set, v)

\* Set.prototype.add on a Set kept in insertion order.
SetAdd(set, v) == IF v \in Range(set) THEN set ELSE Append(set, v)

(***************************************************************************)
(* Text constants of the program.                                          *)
(***************************************************************************)
OnTimeActivity == <<"O", "n", " ", "T", "i", "m", "e">>
OnTimeShift == <<"O", "n", "-", "t", "i", "m", "e">>
DelayText == <<"D", "e", "l", "a", "y">>
CriticalText == <<"C", "r", "i", "t", "i", "c", "a", "l">>

(***************************************************************************)
(* Compliance variant: processActivityData.                                *)
(***************************************************************************)
\* ActivityMetrics as it would be with delayed counted by === 'Delay'
\* instead of includes('Delay').
ActivityMetrics_DelayedExact(curr) ==
    [total |-> 1,
     onTime |-> IF curr.TimeAccuracy = OnTimeActivity THEN 1 ELSE 0,
     locationAccurate |->
         IF Truthy(curr.LocationAccuracy)
            /\ Le(ParseInt(curr.LocationAccuracy), 20) THEN 1 ELSE 0,
     delayed |-> IF curr.TimeAccuracy = DelayText THEN 1 ELSE 0]

\* The per-record metrics object of the reducer.
ActivityMetrics(curr) ==
    [total |-> 1,
     onTime |-> IF curr.TimeAccuracy = OnTimeActivity THEN 1 ELSE 0,
     locationAccurate |->
         IF Truthy(curr.LocationAccuracy)
            /\ Le(ParseInt(curr.LocationAccuracy), 20) THEN 1 ELSE 0,
     delayed |-> IF OptIncludes(curr.TimeAccuracy, DelayText) THEN 1 ELSE 0]

\* complianceRate of a bucket pushed for a record with metrics m.
PushedComplianceRate(m) ==
    MathRound(100 * (m.onTime + m.locationAccurate), 2 * m.total)

\* One step of the reducer: acc is the array of buckets, curr the record.
ActivityReducer(acc, curr) ==
    IF ~Truthy(curr.DateTime) THEN acc
    ELSE LET hour == GetHours(curr.DateTime)
             found == {i \in 1..Len(acc) : StrictEq(acc[i].hour, hour)}
             m == ActivityMetrics(curr)
         IN  IF found # {}
             THEN LET e == CHOOSE i \in found : \A j \in found : i <= j
                  IN  [acc EXCEPT ![e].total = @ + m.total,
                                  ![e].onTime = @ + m.onTime,
                                  ![e].locationAccurate = @ + m.locationAccurate,
                                  ![e].delayed = @ + m.delayed]
             ELSE Append(acc, [hour |-> hour,
                               total |-> m.total,
                               onTime |-> m.onTime,
                               locationAccurate |-> m.locationAccurate,
                               delayed |-> m.delayed,
                               complianceRate |-> PushedComplianceRate(m)])

RECURSIVE ActivityReduce(_, _)
ActivityReduce(acc, data) ==
    IF data = << >> THEN acc
    ELSE ActivityReduce(ActivityReducer(acc, Head(data)), Tail(data))

\* hourlyData.sort((a, b) => a.hour - b.hour): the set of arrays the sort
\* may return.  a.hour - b.hour is NaN when either hour is NaN, and a NaN
\* comparator result counts as 0.  With a NaN hour and two different
\* numeric hours the comparator is not consistent and the order is
\* implementation-defined; with NaN hours and at most one numeric hour all
\* buckets compare equal and the stable sort keeps their order.
SortByHour(hourlyData) ==
    LET hours == {hourlyData[i].hour : i \in 1..Len(hourlyData)}
    IN  IF NaN \notin hours
        THEN {StableSort(hourlyData,
                         [i \in 1..Len(hourlyData) |-> hourlyData[i].hour])}
        ELSE IF Cardinality(hours \ {NaN}) <= 1
             THEN {hourlyData}
             ELSE AllOrders(hourlyData)

\* processActivityData(data): the set of possible results.
processActivityData(data) == SortByHour(ActivityReduce(<< >>, data))


(***************************************************************************)
(* Compliance variant: processGuardData.                                   *)
(***************************************************************************)
\* guardMetrics is the array of profiles in property creation order; the
\* property key of a profile is its id.
GuardKeys(guardMetrics) == [i \in 1..Len(guardMetrics) |-> guardMetrics[i].id]

\* The forEach callback over attendanceData (pass 1).
GuardAttendanceStep(guardMetrics, record) ==
    IF ~Truthy(record.FullName) \/ ~Truthy(record.ServiceNumber)
    THEN guardMetrics
    ELSE LET guardId == record.ServiceNumber
             seeded ==
                 IF IndexOf(GuardKeys(guardMetrics), guardId) = 0
                 THEN Append(guardMetrics,
                        [id |-> guardId,
                         name |-> record.FullName,
                         shifts |-> [total |-> 0, onTime |-> 0, late |-> 0],
                         activities |-> [total |-> 0, onTime |-> 0,
                                         locationAccurate |-> 0],
                         coverage |-> << >>,
                         shiftHours |-> 0])
                 ELSE guardMetrics
             g == IndexOf(GuardKeys(seeded), guardId)
             hours == ParseFloat(record.DutyHours)
         IN  [seeded EXCEPT
                ![g].shifts.total = @ + 1,
                ![g].shifts.onTime =
                    IF record.LateHours = OnTimeShift THEN @ + 1 ELSE @,
                ![g].shifts.late =
                    IF record.LateHours = OnTimeShift THEN @ ELSE @ + 1,
                ![g].coverage = SetAdd(@, record.PostName),
                ![g].shiftHours =
                    IF Truthy(record.DutyHours) /\ hours # NaN
                    THEN @ + hours ELSE @]

RECURSIVE GuardAttendancePass(_, _)
GuardAttendancePass(guardMetrics, attendanceData) ==
    IF attendanceData = << >> THEN guardMetrics
    ELSE GuardAttendancePass(
             GuardAttendanceStep(guardMetrics, Head(attendanceData)),
             Tail(attendanceData))

\* GuardActivityStep as it would be if pass 2 created the profile of a
\* guard that pass 1 did not seed.
GuardActivityStep_Seeding(guardMetrics, record) ==
    LET guardId == record.ServiceNumber
        seeded ==
            IF IndexOf(GuardKeys(guardMetrics), guardId) = 0
            THEN Append(guardMetrics,
                   [id |-> guardId,
                    name |-> record.UserName,
                    shifts |-> [total |-> 0, onTime |-> 0, late |-> 0],
                    activities |-> [total |-> 0, onTime |-> 0,
                                    locationAccurate |-> 0],
                    coverage |-> << >>,
                    shiftHours |-> 0])
            ELSE guardMetrics
        g == IndexOf(GuardKeys(seeded), guardId)
        accuracy == ParseInt(record.LocationAccuracy)
    IN  IF ~Truthy(guardId) THEN guardMetrics
        ELSE [seeded EXCEPT
                ![g].activities.total = @ + 1,
                ![g].activities.onTime =
                    IF record.TimeAccuracy = OnTimeActivity THEN @ + 1 ELSE @,
                ![g].activities.locationAccurate =
                    IF Truthy(record.LocationAccuracy)
                       /\ accuracy # NaN /\ accuracy <= 20
                    THEN @ + 1 ELSE @]

\* The forEach callback over activityData (pass 2).
GuardActivityStep(guardMetrics, record) ==
    LET guardId == record.ServiceNumber
        g == IndexOf(GuardKeys(guardMetrics), guardId)
        accuracy == ParseInt(record.LocationAccuracy)
    IN  IF ~Truthy(guardId) \/ g = 0 THEN guardMetrics
        ELSE [guardMetrics EXCEPT
                ![g].activities.total = @ + 1,
                ![g].activities.onTime =
                    IF record.TimeAccuracy = OnTimeActivity THEN @ + 1 ELSE @,
                ![g].activities.locationAccurate =
                    IF Truthy(record.LocationAccuracy)
                       /\ accuracy # NaN /\ accuracy <= 20
                    THEN @ + 1 ELSE @]

RECURSIVE GuardActivityPass(_, _)
GuardActivityPass(guardMetrics, activityData) ==
    IF activityData = << >> THEN guardMetrics
    ELSE GuardActivityPass(
             GuardActivityStep(guardMetrics, Head(activityData)),
             Tail(activityData))

\* attendanceScore, activityScore and coverageScore as fractions.
AttendanceScore(guard) ==
    IF guard.shifts.total > 0
    THEN [num |-> 30 * guard.shifts.onTime, den |-> guard.shifts.total]
    ELSE [num |-> 0, den |-> 1]

ActivityScore(guard) ==
    IF guard.activities.total > 0
    THEN [num |-> 40 * (guard.activities.onTime
                          + guard.activities.locationAccurate),
          den |-> 2 * guard.activities.total]
    ELSE [num |-> 0, den |-> 1]

\* CoverageScore as it would be without the cap at 30.
CoverageScore_Uncapped(guard) ==
    [num |-> 30 * Len(guard.coverage), den |-> 3]

\* Math.min((guard.coverage.size / 3) * 30, 30), in thirds.
CoverageScore(guard) ==
    [num |-> Min(30 * Len(guard.coverage), 30 * 3), den |-> 3]

\* Math.round(attendanceScore + activityScore + coverageScore).
PerformanceScore(guard) ==
    LET a == AttendanceScore(guard)
        b == ActivityScore(guard)
        c == CoverageScore(guard)
    IN  MathRound(a.num * b.den * c.den + b.num * a.den * c.den
                    + c.num * a.den * b.den,
                  a.den * b.den * c.den)

\* GuardProfile as it would be without the zero check on
\* guard.activities.total.
GuardProfile_UnguardedActivityRate(guard) ==
    [id |-> guard.id,
     name |-> guard.name,
     shifts |-> guard.shifts,
     activities |-> guard.activities,
     coverage |-> guard.coverage,
     shiftHours |-> guard.shiftHours,
     metrics |->
        [attendanceRate |->
            IF guard.shifts.total > 0
            THEN MathRound(100 * guard.shifts.onTime, guard.shifts.total)
            ELSE 0,
         activityComplianceRate |->
            MathRound(100 * (guard.activities.onTime
                               + guard.activities.locationAccurate),
                      2 * guard.activities.total),
         coverageCount |-> Len(guard.coverage),
         performanceScore |-> PerformanceScore(guard)]]

\* The map callback that turns an accumulated guard into its profile.
GuardProfile(guard) ==
    [id |-> guard.id,
     name |-> guard.name,
     shifts |-> guard.shifts,
     activities |-> guard.activities,
     coverage |-> guard.coverage,
     shiftHours |-> guard.shiftHours,
     metrics |->
        [attendanceRate |->
            IF guard.shifts.total > 0
            THEN MathRound(100 * guard.shifts.onTime, guard.shifts.total)
            ELSE 0,
         activityComplianceRate |->
            IF guard.activities.total > 0
            THEN MathRound(100 * (guard.activities.onTime
                                    + guard.activities.locationAccurate),
                           2 * guard.activities.total)
            ELSE 0,
         coverageCount |-> Len(guard.coverage),
         performanceScore |-> PerformanceScore(guard)]]

\* SortByPerformance as it would be with the comparator's operands swapped
\* (a - b: ascending).
SortByPerformance_Ascending(profiles) ==
    StableSort(profiles,
               [i \in 1..Len(profiles) |->
                   profiles[i].metrics.performanceScore])

\* .sort((a, b) => b.metrics.performanceScore - a.metrics.performanceScore)
SortByPerformance(profiles) ==
    StableSort(profiles,
               [i \in 1..Len(profiles) |->
                   0 - profiles[i].metrics.performanceScore])

\* The return statement: Object.values(guardMetrics).map(...).sort(...).
GuardProfiles(guardMetrics) ==
    LET values == ObjectValues(guardMetrics, GuardKeys(guardMetrics))
    IN  SortByPerformance([i \in 1..Len(values) |-> GuardProfile(values[i])])

processGuardData(activityData, attendanceData) ==
    GuardProfiles(GuardActivityPass(GuardAttendancePass(<< >>, attendanceData),
                                    activityData))

(***************************************************************************)
(* Compliance variant: processLocationCoverage.                            *)
(***************************************************************************)
LocationKeys(locationMetrics) ==
    [i \in 1..Len(locationMetrics) |-> locationMetrics[i].location]

\* The forEach callback over the attendance records.
LocationStep(locationMetrics, record) ==
    LET location == record.PostName
    IN  IF ~Truthy(location) THEN locationMetrics
        ELSE LET seeded ==
                     IF IndexOf(LocationKeys(locationMetrics), location) = 0
                     THEN Append(locationMetrics,
                            [location |-> location,
                             shifts |-> [total |-> 0, covered |-> 0,
                                         onTime |-> 0],
                             guards |-> << >>,
                             shiftHours |-> 0])
                     ELSE locationMetrics
                 m == IndexOf(LocationKeys(seeded), location)
                 hours == ParseFloat(record.DutyHours)
             IN  IF Truthy(record.FullName)
                 THEN [seeded EXCEPT
                         ![m].shifts.total = @ + 1,
                         ![m].shifts.covered = @ + 1,
                         ![m].guards = SetAdd(@, record.FullName),
                         ![m].shifts.onTime =
                             IF record.LateHours = OnTimeShift
                             THEN @ + 1 ELSE @,
                         ![m].shiftHours =
                             IF Truthy(record.DutyHours) /\ hours # NaN
                             THEN @ + hours ELSE @]
                 ELSE [seeded EXCEPT ![m].shifts.total = @ + 1]

RECURSIVE LocationPass(_, _)
LocationPass(locationMetrics, data) ==
    IF data = << >> THEN locationMetrics
    ELSE LocationPass(LocationStep(locationMetrics, Head(data)), Tail(data))

\* location.guards.length inside the map callback: `location` is the
\* accumulated entry, whose guards is still the Set; a Set has size but no
\* length, so the property read yields undefined.
SetLength(set) == Undefined

\* LocationProfile as it would be with punctualityRate taken over all
\* shifts of the location instead of the covered ones.
LocationProfile_PunctualityOverTotal(location) ==
    [location |-> location.location,
     shifts |-> location.shifts,
     guards |-> location.guards,
     shiftHours |-> location.shiftHours,
     metrics |->
        [coverageRate |->
            MathRound(100 * location.shifts.covered, location.shifts.total),
         punctualityRate |->
            IF location.shifts.covered > 0
            THEN MathRound(100 * location.shifts.onTime,
                           location.shifts.total)
            ELSE 0,
         guardCount |-> SetLength(location.guards),
         averageShiftHours |->
            IF location.shifts.covered > 0
            THEN MathRound(location.shiftHours, location.shifts.covered)
            ELSE 0]]

\* The map callback that turns an accumulated location into its profile.
LocationProfile(location) ==
    [location |-> location.location,
     shifts |-> location.shifts,
     guards |-> location.guards,
     shiftHours |-> location.shiftHours,
     metrics |->
        [coverageRate |->
            MathRound(100 * location.shifts.covered, location.shifts.total),
         punctualityRate |->
            IF location.shifts.covered > 0
            THEN MathRound(100 * location.shifts.onTime,
                           location.shifts.covered)
            ELSE 0,
         guardCount |-> SetLength(location.guards),
         averageShiftHours |->
            IF location.shifts.covered > 0
            THEN MathRound(location.shiftHours, location.shifts.covered)
            ELSE 0]]

\* .sort((a, b) => b.metrics.coverageRate - a.metrics.coverageRate)
SortByCoverage(profiles) ==
    StableSort(profiles,
               [i \in 1..Len(profiles) |->
                   0 - profiles[i].metrics.coverageRate])

\* The return statement: Object.values(locationMetrics).map(...).sort(...).
LocationProfiles(locationMetrics) ==
    LET values == ObjectValues(locationMetrics, LocationKeys(locationMetrics))
    IN  SortByCoverage([i \in 1..Len(values) |-> LocationProfile(values[i])])

processLocationCoverage(data) == LocationProfiles(LocationPass(<< >>, data))

(***************************************************************************)
(* Compliance variant: calculateComplianceMetrics.                         *)
(***************************************************************************)
Flag(b) == IF b THEN 1 ELSE 0

LocationCompliance(location) ==
    LET cov == Flag(Ge(ToNumber(location.metrics.coverageRate), 95))
        pun == Flag(Ge(ToNumber(location.metrics.punctualityRate), 90))
        sta == Flag(Ge(ToNumber(location.metrics.guardCount), 2))
    IN  [location |-> location.location,
         coverageCompliance |-> cov,
         punctualityCompliance |-> pun,
         staffingCompliance |-> sta,
         complianceScore |-> MathRound(100 * (cov + pun + sta), 3)]

GuardCompliance(guard) ==
    LET att == Flag(Ge(ToNumber(guard.metrics.attendanceRate), 95))
        act == Flag(Ge(ToNumber(guard.metrics.activityComplianceRate), 90))
        cov == Flag(Ge(ToNumber(guard.metrics.coverageCount), 1))
    IN  [name |-> guard.name,
         attendanceCompliance |-> att,
         activityCompliance |-> act,
         coverageCompliance |-> cov,
         complianceScore |-> MathRound(100 * (att + act + cov), 3)]

RECURSIVE SumSeq(_)
SumSeq(s) == IF s = << >> THEN 0 ELSE Head(s) + SumSeq(Tail(s))

\* TotalChecks as it would be with the guards' checks left out.
TotalChecks_LocationsOnly(locations, guards) == 3 * Len(locations)

\* overallMetrics.totalChecks after both maps: += 3 in the callback of
\* every location and of every guard.
TotalChecks(locations, guards) == 3 * Len(locations) + 3 * Len(guards)

calculateComplianceMetrics(activities, locations, guards) ==
    LET locationCompliance ==
            [i \in 1..Len(locations) |-> LocationCompliance(locations[i])]
        guardCompliance ==
            [i \in 1..Len(guards) |-> GuardCompliance(guards[i])]
        totalChecks == TotalChecks(locations, guards)
        passedChecks ==
            SumSeq([i \in 1..Len(locations) |->
                      locationCompliance[i].coverageCompliance
                        + locationCompliance[i].punctualityCompliance
                        + locationCompliance[i].staffingCompliance])
            + SumSeq([i \in 1..Len(guards) |->
                      guardCompliance[i].attendanceCompliance
                        + guardCompliance[i].activityCompliance
                        + guardCompliance[i].coverageCompliance])
    IN  [overall |-> MathRound(100 * passedChecks, totalChecks),
         byLocation |-> locationCompliance,
         byGuard |-> guardCompliance]


(***************************************************************************)
(* Input records.  Field names are the CSV column names without spaces and *)
(* punctuation ('Date/Time' is DateTime, 'Late Hours' is LateHours, ...).  *)
(***************************************************************************)
Date19 == <<"2", "0", "2", "4", "-", "1", "0", "-", "1", "9">>
Date20 == <<"2", "0", "2", "4", "-", "1", "0", "-", "2", "0">>

\* The dates the date picker is set to.
Dates == {Date19, Date20}

\* 08h, on time, 10 m off, guard G1
Act1 ==
    [DateTime |-> <<"2", "0", "2", "4", "-", "1", "0", "-", "1", "9", " ", "0", "8", ":", "1", "5">>,
     TimeAccuracy |-> <<"O", "n", " ", "T", "i", "m", "e">>,
     LocationAccuracy |-> <<"1", "0">>,
     ServiceNumber |-> <<"G", "1">>,
     Alert |-> << >>,
     UserName |-> <<"a", "l", "i", "c", "e">>,
     PostName |-> <<"G", "a", "t", "e", " ", "A">>]

\* 08h again, delayed, 35 m off, guard G1
Act2 ==
    [DateTime |-> <<"2", "0", "2", "4", "-", "1", "0", "-", "1", "9", " ", "0", "8", ":", "4", "0">>,
     TimeAccuracy |-> <<"D", "e", "l", "a", "y", "e", "d">>,
     LocationAccuracy |-> <<"3", "5">>,
     ServiceNumber |-> <<"G", "1">>,
     Alert |-> <<"C", "r", "i", "t", "i", "c", "a", "l">>,
     UserName |-> <<"a", "l", "i", "c", "e">>,
     PostName |-> <<"G", "a", "t", "e", " ", "B">>]

\* 07h, no location accuracy, guard 9 (never in attendance)
Act3 ==
    [DateTime |-> <<"2", "0", "2", "4", "-", "1", "0", "-", "1", "9", " ", "0", "7", ":", "0", "5">>,
     TimeAccuracy |-> <<"O", "n", " ", "T", "i", "m", "e">>,
     LocationAccuracy |-> << >>,
     ServiceNumber |-> <<"9">>,
     Alert |-> <<"I", "n", "f", "o">>,
     UserName |-> <<"e", "v", "e">>,
     PostName |-> <<"G", "a", "t", "e", " ", "A">>]

\* contains the date but is not a valid timestamp
Act4 ==
    [DateTime |-> <<"2", "0", "2", "4", "-", "1", "0", "-", "1", "9", " ", "2", "5", ":", "0", "0">>,
     TimeAccuracy |-> <<"O", "n", " ", "T", "i", "m", "e">>,
     LocationAccuracy |-> <<"n", "/", "a">>,
     ServiceNumber |-> <<"7">>,
     Alert |-> << >>,
     UserName |-> <<"b", "o", "b">>,
     PostName |-> <<"G", "a", "t", "e", " ", "A">>]

\* no Date/Time at all
Act5 ==
    [DateTime |-> << >>,
     TimeAccuracy |-> <<"D", "e", "l", "a", "y", "e", "d">>,
     LocationAccuracy |-> <<"1", "5", "m">>,
     ServiceNumber |-> <<"G", "1">>,
     Alert |-> << >>,
     UserName |-> <<"a", "l", "i", "c", "e">>,
     PostName |-> <<"G", "a", "t", "e", " ", "A">>]

\* a record of the next day, 06h
Act6 ==
    [DateTime |-> <<"2", "0", "2", "4", "-", "1", "0", "-", "2", "0", " ", "0", "6", ":", "3", "0">>,
     TimeAccuracy |-> <<"O", "n", " ", "T", "i", "m", "e">>,
     LocationAccuracy |-> <<"5">>,
     ServiceNumber |-> <<"7">>,
     Alert |-> << >>,
     UserName |-> <<"b", "o", "b">>,
     PostName |-> <<"G", "a", "t", "e", " ", "C">>]

\* G1 at Gate A, on time
Att1 ==
    [LoginDate |-> <<"2", "0", "2", "4", "-", "1", "0", "-", "1", "9">>,
     ServiceNumber |-> <<"G", "1">>,
     FullName |-> <<"A", "l", "i", "c", "e">>,
     PostName |-> <<"G", "a", "t", "e", " ", "A">>,
     LateHours |-> <<"O", "n", "-", "t", "i", "m", "e">>,
     DutyHours |-> <<"8">>,
     Alert |-> << >>]

\* G1 at Gate B, late
Att2 ==
    [LoginDate |-> <<"2", "0", "2", "4", "-", "1", "0", "-", "1", "9">>,
     ServiceNumber |-> <<"G", "1">>,
     FullName |-> <<"A", "l", "i", "c", "e">>,
     PostName |-> <<"G", "a", "t", "e", " ", "B">>,
     LateHours |-> <<"L", "a", "t", "e">>,
     DutyHours |-> <<"8", ".", "5">>,
     Alert |-> << >>]

\* guard 7 (a numeric key) without a post name, late, Duty Hours not a number
Att3 ==
    [LoginDate |-> <<"2", "0", "2", "4", "-", "1", "0", "-", "1", "9">>,
     ServiceNumber |-> <<"7">>,
     FullName |-> <<"B", "o", "b">>,
     PostName |-> << >>,
     LateHours |-> <<"L", "a", "t", "e">>,
     DutyHours |-> <<"n", "/", "a">>,
     Alert |-> << >>]

\* a post-only row: no guard assigned
Att4 ==
    [LoginDate |-> <<"2", "0", "2", "4", "-", "1", "0", "-", "1", "9">>,
     ServiceNumber |-> << >>,
     FullName |-> << >>,
     PostName |-> <<"G", "a", "t", "e", " ", "A">>,
     LateHours |-> << >>,
     DutyHours |-> << >>,
     Alert |-> << >>]

\* guard 3 (a numeric key) at Gate B, late, no Duty Hours
Att5 ==
    [LoginDate |-> <<"2", "0", "2", "4", "-", "1", "0", "-", "1", "9">>,
     ServiceNumber |-> <<"3">>,
     FullName |-> <<"C", "a", "r", "l">>,
     PostName |-> <<"G", "a", "t", "e", " ", "B">>,
     LateHours |-> <<"L", "a", "t", "e">>,
     DutyHours |-> << >>,
     Alert |-> << >>]

\* a record of the next day
Att6 ==
    [LoginDate |-> <<"2", "0", "2", "4", "-", "1", "0", "-", "2", "0">>,
     ServiceNumber |-> <<"7">>,
     FullName |-> <<"B", "o", "b">>,
     PostName |-> <<"G", "a", "t", "e", " ", "C">>,
     LateHours |-> <<"L", "a", "t", "e">>,
     DutyHours |-> <<"7">>,
     Alert |-> << >>]

\* no Login Date at all
Att7 ==
    [LoginDate |-> << >>,
     ServiceNumber |-> <<"G", "1">>,
     FullName |-> <<"A", "l", "i", "c", "e">>,
     PostName |-> <<"G", "a", "t", "e", " ", "A">>,
     LateHours |-> <<"O", "n", "-", "t", "i", "m", "e">>,
     DutyHours |-> <<"8">>,
     Alert |-> << >>]

\* G1 at Gate C, on time
Att8 ==
    [LoginDate |-> <<"2", "0", "2", "4", "-", "1", "0", "-", "1", "9">>,
     ServiceNumber |-> <<"G", "1">>,
     FullName |-> <<"A", "l", "i", "c", "e">>,
     PostName |-> <<"G", "a", "t", "e", " ", "C">>,
     LateHours |-> <<"O", "n", "-", "t", "i", "m", "e">>,
     DutyHours |-> <<"8">>,
     Alert |-> << >>]

\* G1 without a post name, late
Att9 ==
    [LoginDate |-> <<"2", "0", "2", "4", "-", "1", "0", "-", "1", "9">>,
     ServiceNumber |-> <<"G", "1">>,
     FullName |-> <<"A", "l", "i", "c", "e">>,
     PostName |-> << >>,
     LateHours |-> <<"L", "a", "t", "e">>,
     DutyHours |-> <<"7">>,
     Alert |-> << >>]

ActivityPool == {Act1, Act2, Act3, Act4, Act5}
AttendancePool == {Att1, Att2, Att3, Att4, Att5, Att8, Att9}

\* All sequences over S of length at most n.
SeqsUpTo(S, n) == UNION {[1..k -> S] : k \in 0..n}


(***************************************************************************)
(* Basic variant (App.js): the aggregators.                                *)
(***************************************************************************)
\* One step of the reducer of App.js processActivityData.
BasicActivityReducer(acc, curr) ==
    IF ~Truthy(curr.DateTime) THEN acc
    ELSE LET hour == GetHours(curr.DateTime)
             found == {i \in 1..Len(acc) : StrictEq(acc[i].hour, hour)}
         IN  IF found # {}
             THEN LET e == CHOOSE i \in found : \A j \in found : i <= j
                  IN  [acc EXCEPT ![e].count = @ + 1,
                                  ![e].alerts = @ + Flag(Truthy(curr.Alert)),
                                  ![e].criticalAlerts =
                                      @ + Flag(curr.Alert = CriticalText)]
             ELSE Append(acc, [hour |-> hour,
                               count |-> 1,
                               alerts |-> Flag(Truthy(curr.Alert)),
                               criticalAlerts |->
                                   Flag(curr.Alert = CriticalText)])

RECURSIVE BasicActivityReduce(_, _)
BasicActivityReduce(acc, data) ==
    IF data = << >> THEN acc
    ELSE BasicActivityReduce(BasicActivityReducer(acc, Head(data)), Tail(data))

\* App.js processActivityData(data): the set of possible results.
BasicProcessActivityData(data) == SortByHour(BasicActivityReduce(<< >>, data))

\* One step of the reducer of App.js processLocationCoverage; the object is
\* the array of its entries in property creation order.
BasicLocationReducer(acc, curr) ==
    LET location == curr.PostName
    IN  IF ~Truthy(location) THEN acc
        ELSE LET seeded ==
                     IF IndexOf(LocationKeys(acc), location) = 0
                     THEN Append(acc, [location |-> location, total |-> 0,
                                       covered |-> 0, alerts |-> 0,
                                       guards |-> << >>])
                     ELSE acc
                 m == IndexOf(LocationKeys(seeded), location)
             IN  [seeded EXCEPT
                    ![m].total = @ + 1,
                    ![m].covered = @ + Flag(Truthy(curr.FullName)),
                    ![m].guards = IF Truthy(curr.FullName)
                                  THEN SetAdd(@, curr.FullName) ELSE @,
                    ![m].alerts = @ + Flag(Truthy(curr.Alert))]

RECURSIVE BasicProcessLocationCoverage(_, _)
BasicProcessLocationCoverage(acc, data) ==
    IF data = << >> THEN acc
    ELSE BasicProcessLocationCoverage(BasicLocationReducer(acc, Head(data)),
                                      Tail(data))

\* sum over the locations of covered / total, as a fraction.
RECURSIVE CoverageSum(_)
CoverageSum(locs) ==
    IF locs = << >> THEN [num |-> 0, den |-> 1]
    ELSE LET rest == CoverageSum(Tail(locs))
             loc == Head(locs)
         IN  [num |-> loc.covered * rest.den + rest.num * loc.total,
              den |-> loc.total * rest.den]

\* data.filter(d => d['Late Hours'] === 'On-time').length
OnTimeCount(data) ==
    Cardinality({i \in 1..Len(data) : data[i].LateHours = OnTimeShift})

\* data.filter(d => d['Late Hours'] !== 'On-time').length
NotOnTimeCount(data) ==
    Cardinality({i \in 1..Len(data) : data[i].LateHours # OnTimeShift})

\* data.reduce((acc, curr) => acc + (curr['Alert'] ? 1 : 0), 0)
AlertCount(data) ==
    Cardinality({i \in 1..Len(data) : Truthy(data[i].Alert)})

\* data.reduce((acc, curr) => acc + (curr['Alert'] === 'Critical' ? 1 : 0), 0)
CriticalAlertCount(data) ==
    Cardinality({i \in 1..Len(data) : data[i].Alert = CriticalText})

\* App.js processAttendanceData(data); avgCoverage is a fraction whose
\* denominator is 0 (so the value is NaN) when there is no location.
processAttendanceData(data) ==
    LET locationCoverage == BasicProcessLocationCoverage(<< >>, data)
        totalShifts == Len(data)
        onTime == OnTimeCount(data)
        sum == CoverageSum(locationCoverage)
    IN  [totalShifts |-> totalShifts,
         onTime |-> onTime,
         late |-> totalShifts - onTime,
         locationCoverage |-> locationCoverage,
         avgCoverage |-> [num |-> 100 * sum.num,
                          den |-> sum.den * Len(locationCoverage)]]

\* GuardStatisticsStep as it would be if it skipped the rows of guards
\* without an entry (the test of the compliance variant's pass 2) instead
\* of creating the entry.
GuardStatisticsStep_NoSeeding(stats, record) ==
    LET guardId == record.ServiceNumber
        g == IndexOf(GuardKeys(stats), guardId)
        accuracy == ParseInt(record.LocationAccuracy)
        onTime == record.TimeAccuracy = OnTimeActivity
    IN  IF ~Truthy(guardId) \/ g = 0 THEN stats
        ELSE [stats EXCEPT
                ![g].totalActivities = @ + 1,
                ![g].posts = SetAdd(@, record.PostName),
                ![g].lastActivity = record.DateTime,
                ![g].locationAccuracy =
                    IF Truthy(record.LocationAccuracy) /\ accuracy # NaN
                    THEN Append(@, accuracy) ELSE @,
                ![g].onTimeActivities = @ + Flag(onTime),
                ![g].lateActivities = @ + Flag(~onTime),
                ![g].alerts = @ + Flag(Truthy(record.Alert)),
                ![g].criticalAlerts =
                    @ + Flag(record.Alert = CriticalText)]

\* The forEach callback of App.js processGuardStatistics.
GuardStatisticsStep(stats, record) ==
    LET guardId == record.ServiceNumber
    IN  IF ~Truthy(guardId) THEN stats
        ELSE LET seeded ==
                     IF IndexOf(GuardKeys(stats), guardId) = 0
                     THEN Append(stats,
                            [id |-> guardId,
                             name |-> record.UserName,
                             totalActivities |-> 0,
                             locationAccuracy |-> << >>,
                             onTimeActivities |-> 0,
                             lateActivities |-> 0,
                             alerts |-> 0,
                             criticalAlerts |-> 0,
                             posts |-> << >>,
                             lastActivity |-> << >>])
                     ELSE stats
                 g == IndexOf(GuardKeys(seeded), guardId)
                 accuracy == ParseInt(record.LocationAccuracy)
                 onTime == record.TimeAccuracy = OnTimeActivity
             IN  [seeded EXCEPT
                    ![g].totalActivities = @ + 1,
                    ![g].posts = SetAdd(@, record.PostName),
                    ![g].lastActivity = record.DateTime,
                    ![g].locationAccuracy =
                        IF Truthy(record.LocationAccuracy) /\ accuracy # NaN
                        THEN Append(@, accuracy) ELSE @,
                    ![g].onTimeActivities = @ + Flag(onTime),
                    ![g].lateActivities = @ + Flag(~onTime),
                    ![g].alerts = @ + Flag(Truthy(record.Alert)),
                    ![g].criticalAlerts =
                        @ + Flag(record.Alert = CriticalText)]

RECURSIVE GuardStatisticsPass(_, _)
GuardStatisticsPass(stats, activityData) ==
    IF activityData = << >> THEN stats
    ELSE GuardStatisticsPass(GuardStatisticsStep(stats, Head(activityData)),
                             Tail(activityData))

\* The map callback of App.js processGuardStatistics.
GuardStatisticsProfile(guard) ==
    [id |-> guard.id,
     name |-> guard.name,
     totalActivities |-> guard.totalActivities,
     locationAccuracy |-> guard.locationAccuracy,
     onTimeActivities |-> guard.onTimeActivities,
     lateActivities |-> guard.lateActivities,
     alerts |-> guard.alerts,
     criticalAlerts |-> guard.criticalAlerts,
     posts |-> guard.posts,
     lastActivity |-> guard.lastActivity,
     avgLocationAccuracy |->
        IF Len(guard.locationAccuracy) # 0
        THEN MathRound(SumSeq(guard.locationAccuracy),
                       Len(guard.locationAccuracy))
        ELSE 0,
     punctualityRate |->
        MathRound(100 * guard.onTimeActivities,
                  guard.onTimeActivities + guard.lateActivities),
     alertRate |-> MathRound(100 * guard.alerts, guard.totalActivities),
     status |-> IF guard.criticalAlerts > 0 THEN "warning" ELSE "normal"]

\* App.js processGuardStatistics(activityData, attendanceData).
processGuardStatistics(activityData, attendanceData) ==
    LET stats == GuardStatisticsPass(<< >>, activityData)
        values == ObjectValues(stats, GuardKeys(stats))
        profiles == [i \in 1..Len(values) |-> GuardStatisticsProfile(values[i])]
    IN  StableSort(profiles,
                   [i \in 1..Len(profiles) |-> 0 - profiles[i].punctualityRate])

\* App.js calculatePerformanceMetrics: the value passed to
\* setPerformanceMetrics.
calculatePerformanceMetrics(activityData, attendanceSummary, stats) ==
    [overallAccuracy |->
        MathRound(SumSeq([i \in 1..Len(stats) |->
                             stats[i].avgLocationAccuracy]),
                  Len(stats)),
     criticalAlerts |-> CriticalAlertCount(activityData),
     totalAlerts |-> AlertCount(activityData),
     coverageScore |-> MathRound(attendanceSummary.avgCoverage.num,
                                 attendanceSummary.avgCoverage.den)]


(***************************************************************************)
(* State.                                                                  *)
(***************************************************************************)
VARIABLES
    variant,            \* "compliance" (part_001) or "basic" (App.js)
    activityCsv,        \* decoded rows of /data/Activity-Report.csv
    attendanceCsv,      \* decoded rows of /data/Post-basis-attendance.csv
    selectedDate,       \* useState('2024-10-19')
    loading,            \* useState(true)
    error,              \* useState(null)
    activityData,       \* useState([])
    attendanceData,     \* useState({totalShifts: 0, ...})
    guardStats,         \* useState([])
    complianceMetrics,  \* useState({overall: 0, byLocation: [], byShift: []})
    performanceMetrics, \* useState({overallAccuracy: 0, ...}) (App.js)
    cycles,             \* the loadData invocations, in the order started
    finished,           \* the invocations that returned, in the order returned
    applied             \* aggregators applied to the inputs so far

vars == <<variant, activityCsv, attendanceCsv, selectedDate, loading, error,
          activityData, attendanceData, guardStats, complianceMetrics,
          performanceMetrics, cycles, finished, applied>>

inputs == <<variant, activityCsv, attendanceCsv>>

results == <<activityData, attendanceData, guardStats, complianceMetrics,
             performanceMetrics>>

Null == "null"

\* The useState initial values of the component.
InitialState ==
    /\ selectedDate = Date19
    /\ loading = TRUE
    /\ error = Null
    /\ activityData = << >>
    /\ attendanceData = [totalShifts |-> 0, onTime |-> 0, late |-> 0,
                         locationCoverage |-> << >>]
    /\ guardStats = << >>
    /\ complianceMetrics = [overall |-> 0, byLocation |-> << >>,
                            byShift |-> << >>]
    /\ performanceMetrics = [overallAccuracy |-> 0, criticalAlerts |-> 0,
                             coverageScore |-> 0, totalAlerts |-> 0]

(***************************************************************************)
(* The aggregators applied to bounded decoded record sequences, in the     *)
(* order in which loadData calls them (lines 323-325 and 338).             *)
(***************************************************************************)
AggInit ==
    /\ variant = "compliance"
    /\ activityCsv \in SeqsUpTo(ActivityPool, MaxRows)
    /\ attendanceCsv \in SeqsUpTo(AttendancePool, MaxRows - Len(activityCsv))
    /\ InitialState
    /\ cycles = << >>
    /\ finished = << >>
    /\ applied = {}

ApplyProcessActivityData ==
    /\ applied = {}
    /\ activityData' \in processActivityData(activityCsv)
    /\ applied' = applied \cup {"processActivityData"}
    /\ UNCHANGED <<inputs, selectedDate, loading, error, attendanceData,
                   guardStats, complianceMetrics, performanceMetrics, cycles,
                   finished>>

ApplyProcessLocationCoverage ==
    /\ applied = {"processActivityData"}
    /\ attendanceData' =
          [attendanceData EXCEPT
              !.locationCoverage = processLocationCoverage(attendanceCsv)]
    /\ applied' = applied \cup {"processLocationCoverage"}
    /\ UNCHANGED <<inputs, selectedDate, loading, error, activityData,
                   guardStats, complianceMetrics, performanceMetrics, cycles,
                   finished>>

ApplyProcessGuardData ==
    /\ applied = {"processActivityData", "processLocationCoverage"}
    /\ guardStats' = processGuardData(activityCsv, attendanceCsv)
    /\ applied' = applied \cup {"processGuardData"}
    /\ UNCHANGED <<inputs, selectedDate, loading, error, activityData,
                   attendanceData, complianceMetrics, performanceMetrics,
                   cycles, finished>>

ApplyCalculateComplianceMetrics ==
    /\ applied = {"processActivityData", "processLocationCoverage",
                  "processGuardData"}
    /\ complianceMetrics' =
          calculateComplianceMetrics(activityData,
                                     attendanceData.locationCoverage,
                                     guardStats)
    /\ applied' = applied \cup {"calculateComplianceMetrics"}
    /\ UNCHANGED <<inputs, selectedDate, loading, error, activityData,
                   attendanceData, guardStats, performanceMetrics, cycles,
                   finished>>

AggNext ==
    \/ ApplyProcessActivityData
    \/ ApplyProcessLocationCoverage
    \/ ApplyProcessGuardData
    \/ ApplyCalculateComplianceMetrics

SpecAgg == AggInit /\ [][AggNext]_vars

(***************************************************************************)
(* calculateComplianceMetrics next to its thresholds.  A rate of 89, 90,   *)
(* 94 or 95 needs at least ten rows of one entity, more than MaxRows       *)
(* admits, so here the accumulators locationMetrics and guardMetrics start *)
(* with the counts that the forEach passes leave behind for files of 10    *)
(* to 20 rows per entity, and the code runs from the return statements of  *)
(* processLocationCoverage and processGuardData on.                        *)
(***************************************************************************)
\* Shift counts of a location: coverageRate / punctualityRate are
\* 95 / 89, 94 / 94 and 100 / 90.
LocationShiftCounts ==
    {[total |-> 20, covered |-> 19, onTime |-> 17],
     [total |-> 18, covered |-> 17, onTime |-> 16],
     [total |-> 10, covered |-> 10, onTime |-> 9]}

\* Shift counts of a guard: attendanceRate is 95 and 94.
GuardShiftCounts ==
    {[total |-> 20, onTime |-> 19, late |-> 1],
     [total |-> 18, onTime |-> 17, late |-> 1]}

\* Activity counts of a guard: activityComplianceRate is 90 and 89.
GuardActivityCounts ==
    {[total |-> 10, onTime |-> 9, locationAccurate |-> 9],
     [total |-> 9, onTime |-> 8, locationAccurate |-> 8]}

\* The rows that lend the location entries their post name and the guard
\* entries their identifier, name and post.
LocationRows == <<Att1, Att2, Att8>>
GuardRows == <<Att1, Att5, Att3>>

\* locationMetrics after the forEach pass: n entries in creation order.
LocationAccumulators(n) ==
    {[i \in 1..n |->
        [location |-> LocationRows[i].PostName,
         shifts |-> counts[i],
         guards |-> <<LocationRows[i].FullName>>,
         shiftHours |-> 0]] : counts \in [1..n -> LocationShiftCounts]}

\* guardMetrics after both forEach passes: n entries in creation order.
GuardAccumulators(n) ==
    {[i \in 1..n |->
        [id |-> GuardRows[i].ServiceNumber,
         name |-> GuardRows[i].FullName,
         shifts |-> c[i][1],
         activities |-> c[i][2],
         coverage |-> <<GuardRows[i].PostName>>,
         shiftHours |-> 0]] :
        c \in [1..n -> GuardShiftCounts \X GuardActivityCounts]}

MetricsInit ==
    /\ variant = "compliance"
    /\ activityCsv = << >>
    /\ attendanceCsv = << >>
    /\ selectedDate = Date19
    /\ loading = TRUE
    /\ error = Null
    /\ activityData = << >>
    /\ \E n \in 0..MaxProfiles :
          \E locationMetrics \in LocationAccumulators(n) :
             attendanceData = [totalShifts |-> 0, onTime |-> 0, late |-> 0,
                               locationCoverage |->
                                   LocationProfiles(locationMetrics)]
    /\ \E n \in 0..MaxProfiles :
          \E guardMetrics \in GuardAccumulators(n) :
             guardStats = GuardProfiles(guardMetrics)
    /\ complianceMetrics = [overall |-> 0, byLocation |-> << >>,
                            byShift |-> << >>]
    /\ performanceMetrics = [overallAccuracy |-> 0, criticalAlerts |-> 0,
                             coverageScore |-> 0, totalAlerts |-> 0]
    /\ cycles = << >>
    /\ finished = << >>
    /\ applied = {"processActivityData", "processLocationCoverage",
                  "processGuardData"}

MetricsNext == ApplyCalculateComplianceMetrics

SpecMetrics == MetricsInit /\ [][MetricsNext]_vars

(***************************************************************************)
(* processGuardStatistics of App.js applied to the same bounded decoded    *)
(* record sequences, for the comparison of the two variants.               *)
(***************************************************************************)
VariantsInit ==
    /\ variant = "basic"
    /\ activityCsv \in SeqsUpTo(ActivityPool, MaxRows)
    /\ attendanceCsv \in SeqsUpTo(AttendancePool, MaxRows - Len(activityCsv))
    /\ InitialState
    /\ cycles = << >>
    /\ finished = << >>
    /\ applied = {}

ApplyProcessGuardStatistics ==
    /\ applied = {}
    /\ guardStats' = processGuardStatistics(activityCsv, attendanceCsv)
    /\ applied' = applied \cup {"processGuardStatistics"}
    /\ UNCHANGED <<inputs, selectedDate, loading, error, activityData,
                   attendanceData, complianceMetrics, performanceMetrics,
                   cycles, finished>>

VariantsNext == ApplyProcessGuardStatistics

SpecVariants == VariantsInit /\ [][VariantsNext]_vars


(***************************************************************************)
(* The load cycle (useEffect on selectedDate and loadData).                *)
(*                                                                         *)
(* A loadData invocation runs synchronously up to each await, so one       *)
(* action is the code between two awaits.  A cycle records the date its    *)
(* closure captured, its position (pc) and how each fetch ended:           *)
(* "pending", "ok" (success status), "http-error" (the promise resolved    *)
(* with a non-success status) or "network-error" (the promise rejected).   *)
(***************************************************************************)
\* The files served during a run of the load cycle.
ActivityFile == <<Act1, Act6, Act5>>
AttendanceFile == <<Att1, Att6, Att7>>

\* The rows papaparse decodes from the body of an error response: the body
\* is not the CSV, so its rows carry none of the recognised columns.
ErrorPageActivityRows ==
    << [DateTime |-> << >>, TimeAccuracy |-> << >>,
        LocationAccuracy |-> << >>, ServiceNumber |-> << >>,
        Alert |-> << >>, UserName |-> << >>, PostName |-> << >>] >>

ErrorPageAttendanceRows ==
    << [LoginDate |-> << >>, ServiceNumber |-> << >>, FullName |-> << >>,
        PostName |-> << >>, LateHours |-> << >>, DutyHours |-> << >>,
        Alert |-> << >>] >>

\* activityResults.data and attendanceResults.data of a cycle.
ActivityRows(c) ==
    IF c.activity = "ok" THEN activityCsv ELSE ErrorPageActivityRows

AttendanceRows(c) ==
    IF c.attendance = "ok" THEN attendanceCsv ELSE ErrorPageAttendanceRows

\* data.filter(record => record['Date/Time']?.includes(date))
FilterActivity(data, date) ==
    LET Match(record) == OptIncludes(record.DateTime, date)
    IN  SelectSeq(data, Match)

\* data.filter(record => record['Login Date']?.includes(date))
FilterAttendance(data, date) ==
    LET Match(record) == OptIncludes(record.LoginDate, date)
    IN  SelectSeq(data, Match)

InFlight(c) == c.pc \in {"fetchActivity", "fetchAttendance"}

NewCycle(date) ==
    [date |-> date, pc |-> "fetchActivity",
     activity |-> "pending", attendance |-> "pending"]

LoadInit ==
    /\ variant \in {"compliance", "basic"}
    /\ activityCsv = ActivityFile
    /\ attendanceCsv = AttendanceFile
    /\ InitialState
    \* the effect runs loadData once after the first render
    /\ cycles = <<NewCycle(Date19)>>
    /\ finished = << >>
    /\ applied = {}

\* SelectDate as it would be if a date change cancelled the cycles in flight.
SelectDate_Cancelling(d) ==
    /\ d # selectedDate
    /\ Len(cycles) < MaxCycles
    /\ selectedDate' = d
    /\ loading' = TRUE
    /\ error' = IF variant = "basic" THEN Null ELSE error
    /\ cycles' = Append([i \in 1..Len(cycles) |->
                            IF InFlight(cycles[i])
                            THEN [cycles[i] EXCEPT !.pc = "cancelled"]
                            ELSE cycles[i]],
                        NewCycle(d))
    /\ UNCHANGED <<inputs, results, finished, applied>>

\* The date input's onChange: setSelectedDate(d); the effect then calls
\* loadData, which runs up to its first await: setLoading(true) and, in
\* App.js, setError(null).
SelectDate(d) ==
    /\ d # selectedDate
    /\ Len(cycles) < MaxCycles
    /\ selectedDate' = d
    /\ loading' = TRUE
    /\ error' = IF variant = "basic" THEN Null ELSE error
    /\ cycles' = Append(cycles, NewCycle(d))
    /\ UNCHANGED <<inputs, results, finished, applied>>

\* Fail as it would be if the catch block did not set the error state.
Fail_WithoutError(i, c, message) ==
    /\ loading' = FALSE
    /\ cycles' = [cycles EXCEPT ![i] = [c EXCEPT !.pc = "failed"]]
    /\ finished' = Append(finished, i)
    /\ UNCHANGED <<inputs, selectedDate, error, results, applied>>

\* Fail as it would be if the catch block called loadData again (a retry).
Fail_Retrying(i, c, message) ==
    /\ error' = IF variant = "basic"
                THEN "Failed to load data: " \o message
                ELSE message
    /\ loading' = (Len(cycles) < MaxCycles)
    /\ cycles' = LET failed == [cycles EXCEPT ![i] = [c EXCEPT !.pc = "failed"]]
                 IN  IF Len(cycles) < MaxCycles
                     THEN Append(failed, NewCycle(c.date))
                     ELSE failed
    /\ finished' = Append(finished, i)
    /\ UNCHANGED <<inputs, selectedDate, results, applied>>

\* Fail as it would be without the finally block: loading stays set.
Fail_KeepsLoading(i, c, message) ==
    /\ error' = IF variant = "basic"
                THEN "Failed to load data: " \o message
                ELSE message
    /\ cycles' = [cycles EXCEPT ![i] = [c EXCEPT !.pc = "failed"]]
    /\ finished' = Append(finished, i)
    /\ UNCHANGED <<inputs, selectedDate, loading, results, applied>>

\* catch and finally of loadData for cycle i.
Fail(i, c, message) ==
    /\ error' = IF variant = "basic"
                THEN "Failed to load data: " \o message
                ELSE message
    /\ loading' = FALSE
    /\ cycles' = [cycles EXCEPT ![i] = [c EXCEPT !.pc = "failed"]]
    /\ finished' = Append(finished, i)
    /\ UNCHANGED <<inputs, selectedDate, results, applied>>

\* The synchronous tail of loadData for cycle i once both bodies are
\* decoded: filter and aggregate (part_001) or processData (App.js), then
\* finally.
Complete(i, c) ==
    /\ IF variant = "compliance"
       THEN LET filteredActivityData ==
                    FilterActivity(ActivityRows(c), c.date)
                filteredAttendanceData ==
                    FilterAttendance(AttendanceRows(c), c.date)
                locationCoverage ==
                    processLocationCoverage(filteredAttendanceData)
                guardStatistics ==
                    processGuardData(filteredActivityData,
                                     filteredAttendanceData)
            IN  /\ activityData' \in processActivityData(filteredActivityData)
                /\ attendanceData' =
                      [totalShifts |-> Len(filteredAttendanceData),
                       onTime |-> OnTimeCount(filteredAttendanceData),
                       late |-> NotOnTimeCount(filteredAttendanceData),
                       locationCoverage |-> locationCoverage]
                /\ guardStats' = guardStatistics
                /\ complianceMetrics' =
                      calculateComplianceMetrics(activityData',
                                                 locationCoverage,
                                                 guardStatistics)
                /\ UNCHANGED performanceMetrics
       ELSE LET attendanceSummary ==
                    processAttendanceData(AttendanceRows(c))
                guardStatistics ==
                    processGuardStatistics(ActivityRows(c), AttendanceRows(c))
            IN  /\ activityData' \in BasicProcessActivityData(ActivityRows(c))
                /\ attendanceData' = attendanceSummary
                /\ guardStats' = guardStatistics
                /\ performanceMetrics' =
                      calculatePerformanceMetrics(ActivityRows(c),
                                                  attendanceSummary,
                                                  guardStatistics)
                /\ UNCHANGED complianceMetrics
    /\ loading' = FALSE
    /\ cycles' = [cycles EXCEPT ![i] = [c EXCEPT !.pc = "done"]]
    /\ finished' = Append(finished, i)
    /\ UNCHANGED <<inputs, selectedDate, error, applied>>

\* The activity fetch of cycle i resolves with a response of the given
\* status.  App.js throws on !response.ok; part_001 does not look at the
\* status and decodes whatever body came back.
ActivityResponse(i, status) ==
    /\ cycles[i].pc = "fetchActivity"
    /\ LET c == [cycles[i] EXCEPT !.activity = status]
       IN  IF variant = "basic" /\ status # "ok"
           THEN Fail(i, c, "Activity data HTTP error!")
           ELSE /\ cycles' = [cycles EXCEPT
                                 ![i] = [c EXCEPT !.pc = "fetchAttendance"]]
                /\ UNCHANGED <<inputs, selectedDate, loading, error, results,
                               finished, applied>>

\* The activity fetch of cycle i rejects (network error).
ActivityRejected(i) ==
    /\ cycles[i].pc = "fetchActivity"
    /\ Fail(i, [cycles[i] EXCEPT !.activity = "network-error"],
            "Failed to fetch")

\* The attendance fetch of cycle i resolves with a response of the given
\* status.
AttendanceResponse(i, status) ==
    /\ cycles[i].pc = "fetchAttendance"
    /\ LET c == [cycles[i] EXCEPT !.attendance = status]
       IN  IF variant = "basic" /\ status # "ok"
           THEN Fail(i, c, "Attendance data HTTP error!")
           ELSE Complete(i, c)

\* The attendance fetch of cycle i rejects (network error).
AttendanceRejected(i) ==
    /\ cycles[i].pc = "fetchAttendance"
    /\ Fail(i, [cycles[i] EXCEPT !.attendance = "network-error"],
            "Failed to fetch")

LoadNext ==
    \/ \E d \in Dates : SelectDate(d)
    \/ \E i \in 1..Len(cycles), status \in {"ok", "http-error"} :
          ActivityResponse(i, status)
    \/ \E i \in 1..Len(cycles) : ActivityRejected(i)
    \/ \E i \in 1..Len(cycles), status \in {"ok", "http-error"} :
          AttendanceResponse(i, status)
    \/ \E i \in 1..Len(cycles) : AttendanceRejected(i)

Spec == LoadInit /\ [][LoadNext]_vars

\* The pending fetch of cycle i settles (the promise resolves, with any
\* status, or rejects) and the cycle moves on: the steps ActivityResponse
\* and ActivityRejected (AttendanceResponse and AttendanceRejected) of
\* cycle i, described by what they do to the cycle's record.
ActivitySettles(i) ==
    /\ i <= Len(cycles)
    /\ cycles[i].pc = "fetchActivity"
    /\ \E status \in {"ok", "http-error", "network-error"},
          pc \in {"fetchAttendance", "failed"} :
          cycles' = [cycles EXCEPT ![i] = [@ EXCEPT !.activity = status,
                                                    !.pc = pc]]

AttendanceSettles(i) ==
    /\ i <= Len(cycles)
    /\ cycles[i].pc = "fetchAttendance"
    /\ \E status \in {"ok", "http-error", "network-error"},
          pc \in {"done", "failed"} :
          cycles' = [cycles EXCEPT ![i] = [@ EXCEPT !.attendance = status,
                                                    !.pc = pc]]

\* The load cycle under the assumption that every fetch eventually resolves
\* or rejects; the continuation after an await then runs, the event loop
\* being otherwise idle.
SpecLive ==
    /\ Spec
    /\ \A i \in 1..MaxCycles :
          WF_cycles(ActivitySettles(i)) /\ WF_cycles(AttendanceSettles(i))

\* The tabs are rendered when neither early return of App is taken.
TabsRendered == ~loading /\ error = Null

(***************************************************************************)
(* Properties of the aggregators (SpecAgg).                                *)
(***************************************************************************)
Applied(f) == f \in applied

\* The aggregators in the order in which loadData calls them.
AggregatorOrder ==
    <<"processActivityData", "processLocationCoverage", "processGuardData",
      "calculateComplianceMetrics">>

\* f has returned and the next aggregator has not been called yet; the
\* later aggregators leave the result of f unchanged.
Returned(f) ==
    applied = {AggregatorOrder[i] : i \in 1..IndexOf(AggregatorOrder, f)}

InPercentRange(v) == v \in 0..100

Profiles == attendanceData.locationCoverage

\* C1: every rate produced by the aggregation core is a number in [0, 100]:
\* coverageRate and punctualityRate of every location, attendanceRate,
\* activityComplianceRate and performanceScore of every guard, every
\* complianceScore and the overall compliance percentage.
C1_RatesInRange ==
    /\ \A i \in 1..Len(Profiles) :
          /\ InPercentRange(Profiles[i].metrics.coverageRate)
          /\ InPercentRange(Profiles[i].metrics.punctualityRate)
    /\ \A i \in 1..Len(guardStats) :
          /\ InPercentRange(guardStats[i].metrics.attendanceRate)
          /\ InPercentRange(guardStats[i].metrics.activityComplianceRate)
          /\ InPercentRange(guardStats[i].metrics.performanceScore)
    /\ Applied("calculateComplianceMetrics") =>
          /\ \A i \in 1..Len(complianceMetrics.byLocation) :
                InPercentRange(complianceMetrics.byLocation[i].complianceScore)
          /\ \A i \in 1..Len(complianceMetrics.byGuard) :
                InPercentRange(complianceMetrics.byGuard[i].complianceScore)
          /\ InPercentRange(complianceMetrics.overall)

\* C2: the buckets returned by processActivityData are in strictly
\* ascending order of hour, so no two buckets carry the same hour.
C2_HoursStrictlyAscending ==
    Applied("processActivityData") =>
        \A i, j \in 1..Len(activityData) :
            i < j => /\ activityData[i].hour # NaN
                     /\ activityData[j].hour # NaN
                     /\ activityData[i].hour < activityData[j].hour

\* v is x / y rounded to the nearest integer, halves up (y > 0).
IsRounded(v, x, y) == 2 * v * y <= 2 * x + y /\ 2 * x + y < (2 * v + 2) * y

\* C3: the complianceRate of every bucket is
\* round(100 * (onTime + locationAccurate) / (2 * total)) of the bucket's
\* final counts.
C3_ComplianceRateOfFinalCounts ==
    Applied("processActivityData") =>
        \A i \in 1..Len(activityData) :
            LET b == activityData[i]
            IN  IsRounded(b.complianceRate,
                          100 * (b.onTime + b.locationAccurate), 2 * b.total)

\* C4: calculateComplianceMetrics on an empty location-profile list and an
\* empty guard-profile list returns overall = 0.
C4_EmptyOverallIsZero ==
    (/\ Applied("calculateComplianceMetrics")
     /\ Profiles = << >>
     /\ guardStats = << >>) => complianceMetrics.overall = 0

\* C9: processGuardData returns its profiles in non-increasing order of
\* metrics.performanceScore and processLocationCoverage returns its
\* profiles in non-increasing order of metrics.coverageRate.
C9_SortedByRankingKey ==
    /\ Applied("processGuardData") =>
          \A i, j \in 1..Len(guardStats) :
              i < j => guardStats[i].metrics.performanceScore
                         >= guardStats[j].metrics.performanceScore
    /\ Applied("processLocationCoverage") =>
          \A i, j \in 1..Len(Profiles) :
              i < j => Profiles[i].metrics.coverageRate
                         >= Profiles[j].metrics.coverageRate

\* Both sorts had to reorder: guard 3 is seeded first and ranks last (guard
\* 7 gains 20 points from its activity row), and Gate A, seen first, ranks
\* last (its only row has no guard).
C9_Witness ==
    /\ Applied("processGuardData")
    /\ Applied("processLocationCoverage")
    /\ attendanceCsv = <<Att4, Att5, Att3>>
    /\ activityCsv = <<Act4>>
    /\ Len(guardStats) = 2
    /\ guardStats[1].id = Att3.ServiceNumber
    /\ guardStats[2].id = Att5.ServiceNumber
    /\ guardStats[1].metrics.performanceScore
         > guardStats[2].metrics.performanceScore
    /\ Len(Profiles) = 2
    /\ Profiles[2].location = Att4.PostName
    /\ Profiles[1].metrics.coverageRate > Profiles[2].metrics.coverageRate

\* C10: performanceScore = round(attendanceScore + activityScore +
\* coverageScore) with attendanceScore = 30 * onTimeShifts / totalShifts,
\* activityScore = 40 * (onTime + locationAccurate) / (2 * totalActivities)
\* (each 0 on a zero denominator) and coverageScore = min(30, 30 * n / 3)
\* for n distinct locations; the guard of rows Att1, Att2 without activity
\* rows gets shifts {total 2, onTime 1, late 1} and performanceScore 35.
C10_PerformanceScoreFormula ==
    Applied("processGuardData") =>
        /\ \A i \in 1..Len(guardStats) :
              LET g == guardStats[i]
                  s == IF g.shifts.total = 0 THEN 1 ELSE g.shifts.total
                  a == IF g.activities.total = 0 THEN 1 ELSE g.activities.total
                  n == Cardinality(Range(g.coverage))
                  cov == IF 10 * n > 30 THEN 30 ELSE 10 * n
                  \* the exact sum, times s * a
                  exact == 30 * g.shifts.onTime * a
                           + 20 * (g.activities.onTime
                                     + g.activities.locationAccurate) * s
                           + cov * s * a
              IN  IsRounded(g.metrics.performanceScore, exact, s * a)
        /\ (attendanceCsv = <<Att1, Att2>> /\ activityCsv = << >>) =>
              /\ Len(guardStats) = 1
              /\ guardStats[1].shifts = [total |-> 2, onTime |-> 1, late |-> 1]
              /\ guardStats[1].metrics.performanceScore = 35

\* The example of the claim: processGuardData has run on the two rows.
C10_Witness ==
    /\ Applied("processGuardData")
    /\ attendanceCsv = <<Att1, Att2>>
    /\ activityCsv = << >>
    /\ guardStats[1].metrics.performanceScore = 35

\* The attendance rows that carry the post name p, and those of them that
\* also carry a guard display name.
PostRows(p) ==
    {i \in 1..Len(attendanceCsv) : attendanceCsv[i].PostName = p}

NamedPostRows(p) ==
    {i \in PostRows(p) : Truthy(attendanceCsv[i].FullName)}

\* C11: there is one location profile per post name of the attendance
\* rows; its total is the number of rows with that post name, covered the
\* number of those that carry a guard display name, onTime the number of
\* the latter whose lateness is 'On-time', coverageRate =
\* round(100 * covered / total) and punctualityRate =
\* round(100 * onTime / covered), 0 when covered = 0; a covered on-time row
\* and a post-only row of one post give total 2, covered 1, onTime 1,
\* coverageRate 50 and punctualityRate 100.
C11_LocationCounts ==
    Returned("processLocationCoverage") =>
        /\ {Profiles[i].location : i \in 1..Len(Profiles)}
              = {attendanceCsv[i].PostName : i \in 1..Len(attendanceCsv)}
                  \ {Absent}
        /\ \A i, j \in 1..Len(Profiles) :
              i # j => Profiles[i].location # Profiles[j].location
        /\ \A i \in 1..Len(Profiles) :
              LET l == Profiles[i]
                  total == Cardinality(PostRows(l.location))
                  covered == Cardinality(NamedPostRows(l.location))
                  onTime ==
                      Cardinality({r \in NamedPostRows(l.location) :
                                     attendanceCsv[r].LateHours = OnTimeShift})
              IN  /\ l.shifts = [total |-> total, covered |-> covered,
                                 onTime |-> onTime]
                  /\ IsRounded(l.metrics.coverageRate, 100 * covered, total)
                  /\ IF covered > 0
                     THEN IsRounded(l.metrics.punctualityRate,
                                    100 * onTime, covered)
                     ELSE l.metrics.punctualityRate = 0
        /\ attendanceCsv = <<Att1, Att4>> =>
              /\ Len(Profiles) = 1
              /\ Profiles[1].shifts = [total |-> 2, covered |-> 1,
                                       onTime |-> 1]
              /\ Profiles[1].metrics.coverageRate = 50
              /\ Profiles[1].metrics.punctualityRate = 100

\* The example of C11: processLocationCoverage has run on a covered on-time
\* row and a post-only row of Gate A.
C11_Witness ==
    /\ Applied("processLocationCoverage")
    /\ attendanceCsv = <<Att1, Att4>>
    /\ Profiles[1].shifts.total = 2
    /\ Profiles[1].metrics.coverageRate = 50

\* The checks issued and the checks passed, counted over the entries of
\* complianceMetrics.
IssuedChecks == 3 * Len(Profiles) + 3 * Len(guardStats)

PassedChecks ==
    SumSeq([i \in 1..Len(complianceMetrics.byLocation) |->
              complianceMetrics.byLocation[i].coverageCompliance
                + complianceMetrics.byLocation[i].punctualityCompliance
                + complianceMetrics.byLocation[i].staffingCompliance])
    + SumSeq([i \in 1..Len(complianceMetrics.byGuard) |->
                complianceMetrics.byGuard[i].attendanceCompliance
                  + complianceMetrics.byGuard[i].activityCompliance
                  + complianceMetrics.byGuard[i].coverageCompliance])

\* C12: overall = round(100 * P / T), where T is three times the number of
\* location profiles plus three times the number of guard profiles and P
\* the number of passed checks over all of them (T = 0, where the quotient
\* is 0/0, is the subject of C4); one location and one guard that pass 3
\* of their 6 checks give overall = 50.
C12_OverallOfPassedChecks ==
    Applied("calculateComplianceMetrics") =>
        /\ IssuedChecks > 0 =>
              IsRounded(complianceMetrics.overall, 100 * PassedChecks,
                        IssuedChecks)
        /\ (Len(Profiles) = 1 /\ Len(guardStats) = 1 /\ PassedChecks = 3) =>
              complianceMetrics.overall = 50

\* One location and one guard with 3 of 6 checks passed: Gate A is fully
\* covered and punctual, guard G1 passes only the coverage check.
C12_Witness ==
    /\ Applied("calculateComplianceMetrics")
    /\ attendanceCsv = <<Att1, Att9>>
    /\ activityCsv = << >>
    /\ Len(Profiles) = 1
    /\ Len(guardStats) = 1
    /\ PassedChecks = 3
    /\ complianceMetrics.overall = 50

\* v is a number: neither not-a-number nor undefined.
IsNumber(v) == v # NaN /\ v # Undefined

\* C13: a rate whose denominator is zero is reported as 0, never as
\* not-a-number or undefined: activityComplianceRate = 0 for a guard
\* without activities, attendanceRate = 0 for a guard without shifts,
\* punctualityRate = 0 for a location without covered shifts, and the
\* coverageRate of every location profile is a number (0 for a location
\* without shifts, if there is one).
C13_ZeroDenominatorRates ==
    /\ Applied("processGuardData") =>
          \A i \in 1..Len(guardStats) :
              LET g == guardStats[i]
              IN  /\ IsNumber(g.metrics.activityComplianceRate)
                  /\ IsNumber(g.metrics.attendanceRate)
                  /\ g.activities.total = 0 =>
                        g.metrics.activityComplianceRate = 0
                  /\ g.shifts.total = 0 => g.metrics.attendanceRate = 0
    /\ Applied("processLocationCoverage") =>
          \A i \in 1..Len(Profiles) :
              LET l == Profiles[i]
              IN  /\ IsNumber(l.metrics.coverageRate)
                  /\ IsNumber(l.metrics.punctualityRate)
                  /\ l.shifts.total = 0 => l.metrics.coverageRate = 0
                  /\ l.shifts.covered = 0 => l.metrics.punctualityRate = 0

\* A guard without activity rows and a location without covered shifts
\* have been turned into profiles.
C13_Witness ==
    /\ Applied("processGuardData")
    /\ attendanceCsv = <<Att4, Att2>>
    /\ activityCsv = <<Act3>>
    /\ \E i \in 1..Len(guardStats) :
          /\ guardStats[i].activities.total = 0
          /\ guardStats[i].metrics.activityComplianceRate = 0
    /\ \E i \in 1..Len(Profiles) :
          /\ Profiles[i].shifts.covered = 0
          /\ Profiles[i].metrics.punctualityRate = 0
          /\ Profiles[i].metrics.coverageRate = 0

\* The activity rows whose Date/Time is present and parses to a timestamp.
UsableRows ==
    {i \in 1..Len(activityCsv) :
        /\ Truthy(activityCsv[i].DateTime)
        /\ GetHours(activityCsv[i].DateTime) # NaN}

\* The totals of the buckets that carry an hour of the day, summed.
TotalOverHours ==
    SumSeq([i \in 1..Len(activityData) |->
              IF activityData[i].hour \in 0..23
              THEN activityData[i].total ELSE 0])

\* C15: processActivityData skips a record whose Date/Time is missing or
\* does not parse to a timestamp: every output bucket has an hour in
\* 0..23 and the buckets together count exactly the records with a usable
\* timestamp.
C15_UnusableTimestampSkipped ==
    Applied("processActivityData") =>
        /\ \A i \in 1..Len(activityData) : activityData[i].hour \in 0..23
        /\ SumSeq([i \in 1..Len(activityData) |-> activityData[i].total])
              = Cardinality(UsableRows)

\* C16: for every hour h of the day, processActivityData returns no bucket
\* for h when no record has a timestamp of hour h, and otherwise exactly
\* one, whose total is the number of those records, onTime the number of
\* them with Time Accuracy 'On Time', locationAccurate the number with a
\* present Location Accuracy that parses to a number <= 20 and delayed the
\* number whose Time Accuracy contains 'Delay'; the totals summed over the
\* hours equal the number of records with a usable timestamp, and empty
\* input yields the empty sequence.
C16_BucketCounts ==
    Returned("processActivityData") =>
        LET \* the hour of every row, NaN without a usable timestamp
            hourOf == [i \in 1..Len(activityCsv) |->
                         IF Truthy(activityCsv[i].DateTime)
                         THEN GetHours(activityCsv[i].DateTime) ELSE NaN]
            \* for an hour of the day outside this set there are neither
            \* rows nor a bucket
            hoursSeen ==
                ({hourOf[i] : i \in 1..Len(activityCsv)}
                   \cup {activityData[i].hour : i \in 1..Len(activityData)})
                \cap (0..23)
        IN  /\ \A h \in hoursSeen :
                  LET rows == {i \in 1..Len(activityCsv) : hourOf[i] = h}
                      buckets == {i \in 1..Len(activityData) :
                                    activityData[i].hour = h}
                  IN  /\ rows # {}
                      /\ Cardinality(buckets) = 1
                      /\ \A i \in buckets :
                            /\ activityData[i].total = Cardinality(rows)
                            /\ activityData[i].onTime =
                                 Cardinality({r \in rows :
                                    activityCsv[r].TimeAccuracy
                                      = OnTimeActivity})
                            /\ activityData[i].locationAccurate =
                                 Cardinality({r \in rows :
                                    /\ Truthy(activityCsv[r].LocationAccuracy)
                                    /\ ParseInt(activityCsv[r].LocationAccuracy)
                                         # NaN
                                    /\ ParseInt(activityCsv[r].LocationAccuracy)
                                         <= 20})
                            /\ activityData[i].delayed =
                                 Cardinality({r \in rows :
                                    OptIncludes(activityCsv[r].TimeAccuracy,
                                                DelayText)})
            /\ TotalOverHours
                  = Cardinality({i \in 1..Len(activityCsv) : hourOf[i] # NaN})
            /\ activityCsv = << >> => activityData = << >>

\* Two hours with records, one of them with an on-time and a delayed
\* record, and a record without Date/Time that is skipped.
C16_Witness ==
    /\ Applied("processActivityData")
    /\ activityCsv = <<Act1, Act5, Act2, Act3>>
    /\ Len(activityData) = 2
    /\ activityData[1].hour = 7
    /\ activityData[2].hour = 8
    /\ activityData[2].total = 2
    /\ activityData[2].onTime = 1
    /\ activityData[2].locationAccurate = 1
    /\ activityData[2].delayed = 1

\* The guard identifiers of the attendance rows that carry both a Service
\* Number and a Full Name.
SeededIds ==
    {attendanceCsv[i].ServiceNumber :
        i \in {j \in 1..Len(attendanceCsv) :
                 /\ Truthy(attendanceCsv[j].FullName)
                 /\ Truthy(attendanceCsv[j].ServiceNumber)}}

\* The activity rows of the guard with identifier id.
ActivityRowsOf(id) ==
    {i \in 1..Len(activityCsv) : activityCsv[i].ServiceNumber = id}

\* C17: processGuardData returns exactly one profile per guard identifier
\* of the attendance rows that carry a Service Number and a Full Name; an
\* activity row of any other guard creates no profile, and the activity
\* counters of every profile count the guard's own activity rows only.
C17_ProfilesOfSeededGuards ==
    Returned("processGuardData") =>
        /\ {guardStats[i].id : i \in 1..Len(guardStats)} = SeededIds
        /\ Len(guardStats) = Cardinality(SeededIds)
        /\ \A i \in 1..Len(guardStats) :
              LET rows == ActivityRowsOf(guardStats[i].id)
              IN  /\ guardStats[i].activities.total = Cardinality(rows)
                  /\ guardStats[i].activities.onTime =
                        Cardinality({r \in rows :
                           activityCsv[r].TimeAccuracy = OnTimeActivity})

\* An activity row of guard 9, who is in no attendance row, was processed
\* between the rows of the seeded guard G1.
C17_Witness ==
    /\ Applied("processGuardData")
    /\ attendanceCsv = <<Att1>>
    /\ activityCsv = <<Act1, Act3, Act2>>
    /\ Act3.ServiceNumber \notin SeededIds
    /\ Len(guardStats) = 1
    /\ guardStats[1].id = Att1.ServiceNumber
    /\ guardStats[1].activities.total = 2

\* The position of the first attendance row that seeds the profile of the
\* guard with identifier id.
FirstSeen(id) ==
    CHOOSE i \in 1..Len(attendanceCsv) :
        /\ Truthy(attendanceCsv[i].FullName)
        /\ attendanceCsv[i].ServiceNumber = id
        /\ \A j \in 1..(i - 1) :
              ~(/\ Truthy(attendanceCsv[j].FullName)
                /\ attendanceCsv[j].ServiceNumber = id)

\* C19: guard profiles with equal performanceScore are returned by
\* processGuardData in the order in which their identifiers were first
\* encountered in the attendance rows.
C19_TiesKeepEncounterOrder ==
    Applied("processGuardData") =>
        \A i, j \in 1..Len(guardStats) :
            (/\ i < j
             /\ guardStats[i].metrics.performanceScore
                   = guardStats[j].metrics.performanceScore)
            => FirstSeen(guardStats[i].id) < FirstSeen(guardStats[j].id)

(***************************************************************************)
(* Properties of the two variants' guard aggregators (SpecVariants).       *)
(***************************************************************************)
\* The guard identifiers of the activity rows and of the attendance rows.
ActivityIds ==
    {activityCsv[i].ServiceNumber : i \in 1..Len(activityCsv)} \ {Absent}

AttendanceIds ==
    {attendanceCsv[i].ServiceNumber : i \in 1..Len(attendanceCsv)} \ {Absent}

\* The identifiers of the profiles processGuardData returns for the inputs.
ComplianceProfileIds ==
    LET profiles == processGuardData(activityCsv, attendanceCsv)
    IN  {profiles[i].id : i \in 1..Len(profiles)}

\* C18: for the same inputs, the profiles of processGuardStatistics
\* (App.js) are those of the guard identifiers of the activity rows and the
\* profiles of processGuardData those of the identifiers of the attendance
\* rows with a Service Number and a Full Name; a guard of an activity row
\* who is in no attendance row has a profile with totalActivities >= 1 in
\* the former and no profile in the latter.
C18_VariantsDisagree ==
    Applied("processGuardStatistics") =>
        /\ {guardStats[i].id : i \in 1..Len(guardStats)} = ActivityIds
        /\ ComplianceProfileIds = SeededIds
        /\ \A id \in ActivityIds \ AttendanceIds :
              /\ id \notin ComplianceProfileIds
              /\ \E i \in 1..Len(guardStats) :
                    /\ guardStats[i].id = id
                    /\ guardStats[i].totalActivities >= 1

\* Guard 9 has an activity row and no attendance row: App.js has a profile
\* for 9, the compliance variant only one for G1.
C18_Witness ==
    /\ Applied("processGuardStatistics")
    /\ activityCsv = <<Act3>>
    /\ attendanceCsv = <<Att1>>
    /\ Len(guardStats) = 1
    /\ guardStats[1].id = Act3.ServiceNumber
    /\ guardStats[1].totalActivities = 1
    /\ ComplianceProfileIds = {Att1.ServiceNumber}

(***************************************************************************)
(* Properties of calculateComplianceMetrics (SpecMetrics).                 *)
(***************************************************************************)
\* flag (1 or 0) is set exactly when the condition holds.
IsSetIff(flag, condition) == flag \in {0, 1} /\ (flag = 1 <=> condition)

\* C20: byLocation has one entry per location profile, in the order of the
\* profiles, with coverageCompliance set iff coverageRate >= 95,
\* punctualityCompliance iff punctualityRate >= 90 and staffingCompliance
\* iff guardCount >= 2; byGuard has one entry per guard profile, in order,
\* with attendanceCompliance set iff attendanceRate >= 95,
\* activityCompliance iff activityComplianceRate >= 90 and
\* coverageCompliance iff coverageCount >= 1; every complianceScore is
\* round(100 * passed / 3), one of 0, 33, 67 and 100.
C20_ComplianceChecks ==
    Applied("calculateComplianceMetrics") =>
        /\ Len(complianceMetrics.byLocation) = Len(Profiles)
        /\ \A i \in 1..Len(Profiles) :
              LET m == Profiles[i].metrics
                  e == complianceMetrics.byLocation[i]
                  passed == e.coverageCompliance + e.punctualityCompliance
                              + e.staffingCompliance
              IN  /\ e.location = Profiles[i].location
                  /\ IsSetIff(e.coverageCompliance,
                              IsNumber(m.coverageRate) /\ m.coverageRate >= 95)
                  /\ IsSetIff(e.punctualityCompliance,
                              IsNumber(m.punctualityRate)
                                /\ m.punctualityRate >= 90)
                  /\ IsSetIff(e.staffingCompliance,
                              IsNumber(m.guardCount) /\ m.guardCount >= 2)
                  /\ IsRounded(e.complianceScore, 100 * passed, 3)
                  /\ e.complianceScore \in {0, 33, 67, 100}
        /\ Len(complianceMetrics.byGuard) = Len(guardStats)
        /\ \A i \in 1..Len(guardStats) :
              LET m == guardStats[i].metrics
                  e == complianceMetrics.byGuard[i]
                  passed == e.attendanceCompliance + e.activityCompliance
                              + e.coverageCompliance
              IN  /\ e.name = guardStats[i].name
                  /\ IsSetIff(e.attendanceCompliance,
                              IsNumber(m.attendanceRate)
                                /\ m.attendanceRate >= 95)
                  /\ IsSetIff(e.activityCompliance,
                              IsNumber(m.activityComplianceRate)
                                /\ m.activityComplianceRate >= 90)
                  /\ IsSetIff(e.coverageCompliance,
                              IsNumber(m.coverageCount)
                                /\ m.coverageCount >= 1)
                  /\ IsRounded(e.complianceScore, 100 * passed, 3)
                  /\ e.complianceScore \in {0, 33, 67, 100}

\* Both sides of every rate threshold have been checked: coverageRate 95
\* passes and 94 fails, punctualityRate 94 passes and 89 fails,
\* attendanceRate 95 passes and 94 fails, activityComplianceRate 90 passes
\* and 89 fails.
C20_Witness ==
    /\ Applied("calculateComplianceMetrics")
    /\ Len(Profiles) = 2
    /\ Profiles[1].metrics.coverageRate = 95
    /\ Profiles[1].metrics.punctualityRate = 89
    /\ complianceMetrics.byLocation[1].coverageCompliance = 1
    /\ complianceMetrics.byLocation[1].punctualityCompliance = 0
    /\ complianceMetrics.byLocation[1].complianceScore = 33
    /\ Profiles[2].metrics.coverageRate = 94
    /\ Profiles[2].metrics.punctualityRate = 94
    /\ complianceMetrics.byLocation[2].coverageCompliance = 0
    /\ complianceMetrics.byLocation[2].punctualityCompliance = 1
    /\ \E i, j \in 1..Len(guardStats) :
          /\ guardStats[i].metrics.attendanceRate = 95
          /\ guardStats[i].metrics.activityComplianceRate = 90
          /\ complianceMetrics.byGuard[i].attendanceCompliance = 1
          /\ complianceMetrics.byGuard[i].activityCompliance = 1
          /\ complianceMetrics.byGuard[i].complianceScore = 100
          /\ guardStats[j].metrics.attendanceRate = 94
          /\ guardStats[j].metrics.activityComplianceRate = 89
          /\ complianceMetrics.byGuard[j].attendanceCompliance = 0
          /\ complianceMetrics.byGuard[j].activityCompliance = 0
          /\ complianceMetrics.byGuard[j].complianceScore = 33


(***************************************************************************)
(* Properties of the load cycle (Spec).                                    *)
(***************************************************************************)
\* The result state is what the compliance variant computes from the
\* activity rows fa and the attendance rows ft.
ComplianceResultsAre(fa, ft) ==
    /\ activityData \in processActivityData(fa)
    /\ guardStats = processGuardData(fa, ft)
    /\ attendanceData =
          [totalShifts |-> Len(ft),
           onTime |-> OnTimeCount(ft),
           late |-> Len(ft) - OnTimeCount(ft),
           locationCoverage |-> processLocationCoverage(ft)]
    /\ complianceMetrics =
          calculateComplianceMetrics(activityData,
                                     processLocationCoverage(ft),
                                     processGuardData(fa, ft))

\* The result state is what the basic variant computes from the activity
\* rows fa and the attendance rows ft.
BasicResultsAre(fa, ft) ==
    /\ activityData \in BasicProcessActivityData(fa)
    /\ guardStats = processGuardStatistics(fa, ft)
    /\ attendanceData = processAttendanceData(ft)
    /\ performanceMetrics =
          calculatePerformanceMetrics(fa, processAttendanceData(ft),
                                      processGuardStatistics(fa, ft))

\* The records of the served files that belong to a date: those whose date
\* field is present and contains the date as a substring.
ActivityOfDate(date) ==
    LET Has(r) == r.DateTime # << >> /\ Includes(r.DateTime, date)
    IN  SelectSeq(activityCsv, Has)

AttendanceOfDate(date) ==
    LET Has(r) == r.LoginDate # << >> /\ Includes(r.LoginDate, date)
    IN  SelectSeq(attendanceCsv, Has)

NoneInFlight == \A i \in 1..Len(cycles) : ~InFlight(cycles[i])

AllFetchesOk ==
    \A i \in 1..Len(cycles) :
        cycles[i].activity = "ok" /\ cycles[i].attendance = "ok"

FetchFailed(c) ==
    \/ c.activity \in {"http-error", "network-error"}
    \/ c.attendance \in {"http-error", "network-error"}

LastWriter ==
    LET done == {k \in 1..Len(finished) : cycles[finished[k]].pc = "done"}
    IN  IF done = {} THEN 0
        ELSE finished[CHOOSE k \in done : \A m \in done : m <= k]

\* The result state is the one cycle c computes.
ResultsOfCycle(c) ==
    IF variant = "compliance"
    THEN ComplianceResultsAre(FilterActivity(ActivityRows(c), c.date),
                              FilterAttendance(AttendanceRows(c), c.date))
    ELSE BasicResultsAre(ActivityRows(c), AttendanceRows(c))

\* C6 (last writer wins): the displayed results are those of the cycle that
\* completed last, whatever date is selected by then.
C6_LastWriterWins ==
    LastWriter # 0 => ResultsOfCycle(cycles[LastWriter])

\* C6 (no cancellation): every cycle that was started and has not returned
\* is still in flight, whatever the selected date has become since.
C6_NoCancellation ==
    \A i \in 1..Len(cycles) :
        InFlight(cycles[i]) <=> i \notin Range(finished)

LastFinished == cycles[finished[Len(finished)]]

\* C7: a load cycle in which a fetch fails by network error or returns a
\* non-success status ends with the error state set, so that no tab is
\* rendered once it has returned; in both variants and for both fetches.
\* (loading is false exactly when the last event was a cycle returning.)
C7_FailedFetchSetsError ==
    (/\ finished # << >>
     /\ ~loading
     /\ FetchFailed(LastFinished))
    => (error # Null /\ ~TabsRendered)

\* C8: after a successful load cycle for date D, the aggregates are computed
\* from exactly the activity records whose Date/Time contains D and the
\* attendance records whose Login Date contains D; records without the
\* date field or of another date contribute nothing.
C8_AggregatesOfDateSubset ==
    (/\ LastWriter # 0
     /\ cycles[LastWriter].activity = "ok"
     /\ cycles[LastWriter].attendance = "ok")
    => IF variant = "compliance"
       THEN ComplianceResultsAre(ActivityOfDate(cycles[LastWriter].date),
                                 AttendanceOfDate(cycles[LastWriter].date))
       ELSE BasicResultsAre(ActivityOfDate(cycles[LastWriter].date),
                            AttendanceOfDate(cycles[LastWriter].date))

\* The result state still holds the useState initial values.
ResultsInitial ==
    /\ activityData = << >>
    /\ attendanceData = [totalShifts |-> 0, onTime |-> 0, late |-> 0,
                         locationCoverage |-> << >>]
    /\ guardStats = << >>
    /\ complianceMetrics = [overall |-> 0, byLocation |-> << >>,
                            byShift |-> << >>]
    /\ performanceMetrics = [overallAccuracy |-> 0, criticalAlerts |-> 0,
                             coverageScore |-> 0, totalAlerts |-> 0]

\* C21: within a load cycle, aggregation and the write of result state
\* come after both fetches: result state differs from its initial value
\* only once a cycle ran to the end, a cycle that ran to the end has both
\* fetches behind it, and a cycle one of whose fetches failed (by network
\* error or with a non-success status) never runs to the end, so that no
\* aggregate of one file alone is written.
C21_JoinBeforeAggregation ==
    /\ ~ResultsInitial => LastWriter # 0
    /\ \A i \in 1..Len(cycles) :
          cycles[i].pc = "done" =>
              /\ cycles[i].activity # "pending"
              /\ cycles[i].attendance # "pending"
              /\ ~FetchFailed(cycles[i])

\* The cycle started last.
LatestCycle == cycles[Len(cycles)]

ActivityThrew(c) ==
    \/ c.activity = "network-error"
    \/ variant = "basic" /\ c.activity = "http-error"

C24_AnomaliesSkippedOrZero ==
    Applied("calculateComplianceMetrics") =>
        /\ error = Null
        /\ \A i \in 1..Len(activityData) :
              LET b == activityData[i]
              IN  /\ b.hour \in 0..23
                  /\ b.onTime \in 0..b.total
                  /\ b.locationAccurate \in 0..b.total
                  /\ b.delayed \in 0..b.total
                  /\ IsNumber(b.complianceRate)
        /\ \A i \in 1..Len(guardStats) :
              LET g == guardStats[i]
              IN  /\ IsNumber(g.shiftHours)
                  /\ IsNumber(g.metrics.attendanceRate)
                  /\ IsNumber(g.metrics.activityComplianceRate)
                  /\ IsNumber(g.metrics.performanceScore)
        /\ \A i \in 1..Len(Profiles) :
              LET l == Profiles[i]
              IN  /\ IsNumber(l.shiftHours)
                  /\ IsNumber(l.metrics.coverageRate)
                  /\ IsNumber(l.metrics.punctualityRate)
                  /\ IsNumber(l.metrics.averageShiftHours)

Succeeded(c) == c.pc = "done" /\ c.activity = "ok" /\ c.attendance = "ok"

LastSucceeded ==
    LET ok == {k \in 1..Len(finished) : Succeeded(cycles[finished[k]])}
    IN  IF ok = {} THEN 0
        ELSE finished[CHOOSE k \in ok : \A m \in ok : m <= k]

\* C27: result state is written only by a cycle whose fetches and decoding
\* succeeded: it has its initial value until a cycle succeeds, and from
\* then on it is what the cycle that succeeded last computed; a cycle in
\* which a fetch failed leaves it as it was.
C27_ResultsOfLastSuccess ==
    IF LastSucceeded = 0
    THEN ResultsInitial
    ELSE ResultsOfCycle(cycles[LastSucceeded])

\* C28: in the compliance variant, whenever the tabs are rendered,
\* complianceMetrics has a byLocation list and a byGuard list (its initial
\* value has no byGuard field), after any sequence of date changes,
\* successes and failures.
C28_RenderedMetricsHaveLists ==
    (variant = "compliance" /\ TabsRendered) =>
        /\ "byLocation" \in DOMAIN complianceMetrics
        /\ "byGuard" \in DOMAIN complianceMetrics

\* The tabs are rendered after a date change; the list of guard scores is
\* there and not empty.
C28_Witness ==
    /\ variant = "compliance"
    /\ TabsRendered
    /\ finished = <<1, 2>>
    /\ "byGuard" \in DOMAIN complianceMetrics
    /\ complianceMetrics.byGuard # << >>

\* The counts of a location profile are consistent with each other.
LocationShiftsConsistent(l) ==
    /\ l.shifts.total >= 1
    /\ 0 <= l.shifts.onTime
    /\ l.shifts.onTime <= l.shifts.covered
    /\ l.shifts.covered <= l.shifts.total

\* The counts of a guard profile are consistent with each other.
GuardCountsConsistent(g) ==
    /\ g.shifts.total >= 1
    /\ g.shifts.onTime + g.shifts.late = g.shifts.total
    /\ g.activities.onTime <= g.activities.total
    /\ g.activities.locationAccurate <= g.activities.total

\* C29: every location profile of processLocationCoverage has total >= 1,
\* 0 <= onTime <= covered <= total, guardCount <= covered, and
\* guardCount >= 1 exactly when covered >= 1; every guard profile of
\* processGuardData has shifts.total >= 1, shifts.onTime + shifts.late =
\* shifts.total, activities.onTime <= activities.total and
\* activities.locationAccurate <= activities.total.
C29_ProfileCounts ==
    /\ Returned("processLocationCoverage") =>
          \A i \in 1..Len(Profiles) :
              LET l == Profiles[i]
                  guardCount == ToNumber(l.metrics.guardCount)
              IN  /\ LocationShiftsConsistent(l)
                  /\ Le(guardCount, l.shifts.covered)
                  /\ Ge(guardCount, 1) <=> l.shifts.covered >= 1
    /\ Returned("processGuardData") =>
          \A i \in 1..Len(guardStats) : GuardCountsConsistent(guardStats[i])

\* C30: every guard profile of processGuardData has coverageCount >= 1,
\* also when all attendance rows of the guard lack a Post Name (the missing
\* value is a member of the coverage set), and performanceScore >= 10;
\* every guard passes the coverageCompliance check of
\* calculateComplianceMetrics and has complianceScore >= 33.
C30_CoverageCountPositive ==
    /\ Applied("processGuardData") =>
          \A i \in 1..Len(guardStats) :
              /\ guardStats[i].metrics.coverageCount >= 1
              /\ guardStats[i].metrics.performanceScore >= 10
    /\ Applied("calculateComplianceMetrics") =>
          \A i \in 1..Len(complianceMetrics.byGuard) :
              /\ complianceMetrics.byGuard[i].coverageCompliance = 1
              /\ complianceMetrics.byGuard[i].complianceScore >= 33

\* Guard 7 has one shift, late and without a Post Name, and no activity:
\* the coverage set holds the missing value alone, and both bounds are
\* attained.
C30_Witness ==
    /\ Applied("calculateComplianceMetrics")
    /\ attendanceCsv = <<Att3>>
    /\ Len(guardStats) = 1
    /\ guardStats[1].coverage = <<Att3.PostName>>
    /\ ~Truthy(Att3.PostName)
    /\ guardStats[1].metrics.coverageCount = 1
    /\ guardStats[1].metrics.performanceScore = 10
    /\ complianceMetrics.byGuard[1].complianceScore = 33

====
